---- MODULE Spec2Model ----
(***************************************************************************)
(* viewpane: a command's output shown in a scrollable curses pad.          *)
(*                                                                         *)
(* Modelled from src/viewpane.py:                                          *)
(*   StransiInstructionStreamTranslator  instruction stream -> (text,attr) *)
(*   PadManager                          the pad, its size and its offset  *)
(*   Viewpane, main                      the run loop, keys, exit status   *)
(* together with the curses state they read and write (the colour pair     *)
(* table, COLOR_PAIRS, LINES/COLS, the size of the screen, the KEY_RESIZE   *)
(* keys curses queues, the rectangle a pad refresh copies).                *)
(*                                                                         *)
(* An attr value (curses packs style bits and the pair number into one     *)
(* int) is kept as a record [flags, pair]: the style bits as a set of      *)
(* A_* names, the pair number as a natural.                                *)
(***************************************************************************)
EXTENDS Integers, Sequences, FiniteSets, TLC

VARIABLES
    self_attr,       \* translator._attr: set of A_* style bits
    self_color_num,  \* translator._color_num
    color_map,       \* translator._color_map: <<fg, bg>> -> colour number
    pair_table,      \* curses: colour number -> <<fg, bg>> (init_pair / pair_content)
    gen,             \* the generator frame of the translate call in progress
    consumed,        \* items the current (or latest) translate call has taken from its stream
    out,             \* (text, attr) pairs that call has yielded
    after_reset,     \* history: the latest item taken by this translator was SetAttribute(NORMAL)
    resolved,        \* history: distinct (fg, bg) pairs in the order they were first looked up
    budget,          \* stream items still available to direct translate calls (bounds the run)
    pad_size,        \* pad.getmaxyx(): <<rows, cols>>
    pad_cells,       \* pad contents: <<row, col>> -> [ch, attr]
    coords,          \* PadManager.coords: <<y, x>>
    term,            \* <<curses.LINES, curses.COLS>>: set by initscr and by update_lines_cols()
    screen,          \* stdscr.getmaxyx(): the size of the screen curses works with
    tty,             \* the size of the terminal window
    winch,           \* SIGWINCH has arrived and curses has not handled it yet
    resize_keys,     \* number of KEY_RESIZE keys in the input queue of curses
    shown,           \* rectangle of the screen the latest call copied pad cells to (none unless it was refresh)
    written,         \* history: the lines given to the latest write
    last_op,         \* history: name of the latest PadManager call, or of the latest step of run()
    last_args,       \* history: its two arguments, where the specification records them
    status,          \* "ok", or "raised" once an exception has left a call
    hist,            \* history: items taken and pairs yielded over all translate calls, where recorded
    main             \* main(): where the process is, how it got there, the status it exited with

vars == <<self_attr, self_color_num, color_map, pair_table, gen, consumed, out,
          after_reset, resolved, budget, pad_size, pad_cells, coords, term,
          screen, tty, winch, resize_keys, shown, written, last_op, last_args, status, hist, main>>

translator_vars == <<self_attr, self_color_num, color_map, pair_table>>
call_vars == <<gen, consumed, out, after_reset, resolved, budget, hist>>
terminal_vars == <<screen, tty, winch, resize_keys>>
pad_vars == <<pad_size, pad_cells, coords, term, terminal_vars, shown, written, last_op, last_args>>

----------------------------------------------------------------------------
(* Bounds of the model *)

\* number of colour pairs of the terminal (curses.COLOR_PAIRS)
COLOR_PAIRS == 1
\* stream items the direct translate calls may take in one run
MaxBudget == 5
\* lines in one write
MaxLines == 2
\* largest |delta| given to move_by, largest explicit coordinate given to jump_to
MaxDelta == 1
\* rows and columns of the pad handed to PadManager at construction are 1 .. these
InitRows == 2
InitCols == 3
\* rows and columns of the terminal when the program starts
TermRows == 2
TermCols == 3
\* KEY_RESIZE keys curses may hold in its input queue
MaxResizeKeys == 3

----------------------------------------------------------------------------
(* Instructions: what Ansi.instructions() yields *)

\* ansi256 codes of the colours used as inputs; Grey (bright black, code 8) is the
\* first code an 8-colour terminal does not have
Red == 1
Blue == 4
Grey == 8
\* pair_content(0) after use_default_colors(): both -1
DefaultColor == -1
\* SetColor.color is None
NoColor == -2
\* number of colours of the terminal (curses.COLORS)
COLORS == 8
\* curses.color_pair(n) keeps the low 8 bits of n (A_COLOR is 0xff00)
PairNumbers == 256

Text(s) == [kind |-> "str", text |-> s, role |-> "", color |-> NoColor, attribute |-> ""]
SetColor(r, c) == [kind |-> "SetColor", text |-> <<>>, role |-> r, color |-> c, attribute |-> ""]
SetAttribute(a) == [kind |-> "SetAttribute", text |-> <<>>, role |-> "", color |-> NoColor, attribute |-> a]
OtherInstruction == [kind |-> "Other", text |-> <<>>, role |-> "", color |-> NoColor, attribute |-> ""]

SetForeground(c) == SetColor("FOREGROUND", c)
SetBackground(c) == SetColor("BACKGROUND", c)
Reset == SetAttribute("NORMAL")

----------------------------------------------------------------------------
(* StransiInstructionStreamTranslator *)

MaxNat(a, b) == IF a >= b THEN a ELSE b
MinNat(a, b) == IF a <= b THEN a ELSE b

\* attr | curses.color_pair(color_num)
Encode(attr, color_num) == [flags |-> attr, pair |-> color_num % PairNumbers]

\* curses.pair_content(n)
PairContent(table, n) == table[n]

\* variant: every call starts with no attribute and no colour
SeedFrameFresh(attr, color_num, table) ==
    [pc |-> "running", attr |-> {}, color_num |-> 0,
     fg |-> PairContent(table, 0)[1], bg |-> PairContent(table, 0)[2]]

\* the locals of translate_ansi_instruction_stream at the top of the loop
SeedFrame(attr, color_num, table) ==
    [pc |-> "running", attr |-> attr, color_num |-> color_num,
     fg |-> PairContent(table, color_num)[1], bg |-> PairContent(table, color_num)[2]]

MaxOf(S) == CHOOSE m \in S : \A k \in S : k <= m

\* variant: the number of pairs held is taken as the next colour number
NextColorNumLen(cmap) == Cardinality(DOMAIN cmap)

\* variant: the largest number held is taken again
NextColorNumReuse(cmap) ==
    IF DOMAIN cmap = {} THEN 1 ELSE MaxOf({cmap[p] : p \in DOMAIN cmap})

\* the next available colour number
NextColorNum(cmap) ==
    IF DOMAIN cmap = {} THEN 1 ELSE MaxOf({cmap[p] : p \in DOMAIN cmap}) + 1

\* the pairs of a pair table that hold a default colour; after use_default_colors()
\* pair 0 is one of them
DefaultPairs(table) ==
    Cardinality({n \in DOMAIN table : DefaultColor \in {table[n][1], table[n][2]}})

\* The largest pair number init_pair(n, fg, bg) takes, given the pairs initialised
\* before it. With default colours in use ncurses takes a number up to COLOR_PAIRS plus
\* the number of pairs that hold a default colour, the new one counted, and none
\* above COLOR_PAIRS + 2 * COLORS.
PairLimit(n, pair, table) ==
    MinNat(COLOR_PAIRS + 2 * COLORS, COLOR_PAIRS + DefaultPairs((n :> pair) @@ table))

\* a colour number init_pair takes: -1 (the default colour) up to COLORS - 1
ColorOk(c) == c < COLORS

\* variant: init_pair takes any pair number and any colour
InitPairAlways(n, pair, table) == TRUE

\* curses.init_pair(n, fg, bg) returns; it raises ValueError for a colour number
\* above COLORS - 1 and for a larger n
InitPairOk(n, pair, table) ==
    /\ ColorOk(pair[1])
    /\ ColorOk(pair[2])
    /\ n <= PairLimit(n, pair, table)

\* variant: the role is not looked at, whatever is not FOREGROUND counts as BACKGROUND
EffectiveAnyRole(item) ==
    /\ item.kind = "SetColor"
    /\ item.color # NoColor

\* a SetColor the loop acts on: it has a colour and a known role
Effective(item) ==
    /\ item.kind = "SetColor"
    /\ item.color # NoColor
    /\ item.role \in {"FOREGROUND", "BACKGROUND"}

\* variant: the two roles are exchanged
PendingPairSwapped(f, item) ==
    IF item.role = "BACKGROUND" THEN <<item.color, f.bg>> ELSE <<f.fg, item.color>>

\* the (fg, bg) an effective SetColor looks up
PendingPair(f, item) ==
    IF item.role = "FOREGROUND" THEN <<item.color, f.bg>> ELSE <<f.fg, item.color>>

\* variant: NORMAL clears the style bits and keeps the colour number
ApplyAttributeKeepColor(attr, color_num, a) ==
    CASE a = "NORMAL" -> <<{}, color_num>>
      [] a = "BOLD" -> <<attr \cup {"A_BOLD"}, color_num>>
      [] OTHER -> <<attr, color_num>>

\* variant: UNDERLINE is assigned instead of or-ed in
ApplyAttributeAssign(attr, color_num, a) ==
    CASE a = "NORMAL" -> <<{}, 0>>
      [] a = "BLINK" -> <<attr \cup {"A_BLINK"}, color_num>>
      [] a = "BOLD" -> <<attr \cup {"A_BOLD"}, color_num>>
      [] a = "DIM" -> <<attr \cup {"A_DIM"}, color_num>>
      [] a = "HIDDEN" -> <<attr \cup {"A_INVIS"}, color_num>>
      [] a = "ITALIC" -> <<attr \cup {"A_ITALIC"}, color_num>>
      [] a = "REVERSE" -> <<attr \cup {"A_REVERSE"}, color_num>>
      [] a = "UNDERLINE" -> <<{"A_UNDERLINE"}, color_num>>
      [] a = "NEITHER_BOLD_NOR_DIM" -> <<attr \ {"A_BOLD", "A_DIM"}, color_num>>
      [] a = "NOT_BLINK" -> <<attr \ {"A_BLINK"}, color_num>>
      [] a = "NOT_HIDDEN" -> <<attr \ {"A_INVIS"}, color_num>>
      [] a = "NOT_ITALIC" -> <<attr \ {"A_ITALIC"}, color_num>>
      [] a = "NOT_REVERSE" -> <<attr \ {"A_REVERSE"}, color_num>>
      [] a = "NOT_UNDERLINE" -> <<attr \ {"A_UNDERLINE"}, color_num>>
      [] OTHER -> <<attr, color_num>>

\* the SetAttribute branch: new <<attr, color_num>>
ApplyAttribute(attr, color_num, a) ==
    CASE a = "NORMAL" -> <<{}, 0>>
      [] a = "BLINK" -> <<attr \cup {"A_BLINK"}, color_num>>
      [] a = "BOLD" -> <<attr \cup {"A_BOLD"}, color_num>>
      [] a = "DIM" -> <<attr \cup {"A_DIM"}, color_num>>
      [] a = "HIDDEN" -> <<attr \cup {"A_INVIS"}, color_num>>
      [] a = "ITALIC" -> <<attr \cup {"A_ITALIC"}, color_num>>
      [] a = "REVERSE" -> <<attr \cup {"A_REVERSE"}, color_num>>
      [] a = "UNDERLINE" -> <<attr \cup {"A_UNDERLINE"}, color_num>>
      [] a = "NEITHER_BOLD_NOR_DIM" -> <<attr \ {"A_BOLD", "A_DIM"}, color_num>>
      [] a = "NOT_BLINK" -> <<attr \ {"A_BLINK"}, color_num>>
      [] a = "NOT_HIDDEN" -> <<attr \ {"A_INVIS"}, color_num>>
      [] a = "NOT_ITALIC" -> <<attr \ {"A_ITALIC"}, color_num>>
      [] a = "NOT_REVERSE" -> <<attr \ {"A_REVERSE"}, color_num>>
      [] a = "NOT_UNDERLINE" -> <<attr \ {"A_UNDERLINE"}, color_num>>
      [] OTHER -> <<attr, color_num>>

\* what one pass of the loop body yields: a pair for a str, nothing otherwise
Yielded(f, item) ==
    IF item.kind = "str"
    THEN <<[text |-> item.text, attr |-> Encode(f.attr, f.color_num)]>>
    ELSE <<>>

\* variant: a new pair is given to curses and its mapping is not stored
LoopBodyNoStore(f, cmap, table, item) ==
    IF Effective(item) THEN
        LET pair == PendingPair(f, item)
            f1 == [f EXCEPT !.fg = pair[1], !.bg = pair[2]]
        IN  IF pair \in DOMAIN cmap
            THEN [f |-> [f1 EXCEPT !.color_num = cmap[pair]], cmap |-> cmap, table |-> table]
            ELSE LET n == NextColorNum(cmap)
                 IN  IF InitPairOk(n, pair, table)
                     THEN [f |-> [f1 EXCEPT !.color_num = n],
                           cmap |-> cmap,
                           table |-> (n :> pair) @@ table]
                     ELSE [f |-> [f1 EXCEPT !.color_num = n, !.pc = "raised"],
                           cmap |-> cmap, table |-> table]
    ELSE IF item.kind = "SetAttribute" THEN
        LET r == ApplyAttribute(f.attr, f.color_num, item.attribute)
        IN  [f |-> [f EXCEPT !.attr = r[1], !.color_num = r[2]], cmap |-> cmap, table |-> table]
    ELSE [f |-> f, cmap |-> cmap, table |-> table]

\* One pass of the loop body on (frame, colour map, pair table):
\* the new [f, cmap, table]; f.pc = "raised" when init_pair raised.
LoopBody(f, cmap, table, item) ==
    IF Effective(item) THEN
        LET pair == PendingPair(f, item)
            f1 == [f EXCEPT !.fg = pair[1], !.bg = pair[2]]
        IN  IF pair \in DOMAIN cmap
            THEN [f |-> [f1 EXCEPT !.color_num = cmap[pair]], cmap |-> cmap, table |-> table]
            ELSE LET n == NextColorNum(cmap)
                 IN  IF InitPairOk(n, pair, table)
                     THEN [f |-> [f1 EXCEPT !.color_num = n],
                           cmap |-> (pair :> n) @@ cmap,
                           table |-> (n :> pair) @@ table]
                     ELSE [f |-> [f1 EXCEPT !.color_num = n, !.pc = "raised"],
                           cmap |-> cmap, table |-> table]
    ELSE IF item.kind = "SetAttribute" THEN
        LET r == ApplyAttribute(f.attr, f.color_num, item.attribute)
        IN  [f |-> [f EXCEPT !.attr = r[1], !.color_num = r[2]], cmap |-> cmap, table |-> table]
    ELSE [f |-> f, cmap |-> cmap, table |-> table]

\* A translate call, item by item as its consumer pulls pairs from the generator.
NoFrame == [pc |-> "none", attr |-> {}, color_num |-> 0, fg |-> DefaultColor, bg |-> DefaultColor]

BeginCall ==
    /\ status = "ok"
    /\ gen.pc \in {"none", "done"}
    /\ budget > 0
    /\ gen' = SeedFrame(self_attr, self_color_num, pair_table)
    /\ consumed' = <<>>
    /\ out' = <<>>
    /\ hist' = IF hist.on THEN [hist EXCEPT !.calls = @ + 1] ELSE hist
    /\ UNCHANGED <<translator_vars, after_reset, resolved, budget, pad_vars, status, main>>

Consume(item) ==
    /\ status = "ok"
    /\ gen.pc = "running"
    /\ budget > 0
    /\ LET r == LoopBody(gen, color_map, pair_table, item)
       IN  /\ gen' = r.f
           /\ color_map' = r.cmap
           /\ pair_table' = r.table
           /\ status' = IF r.f.pc = "raised" THEN "raised" ELSE "ok"
    /\ out' = out \o Yielded(gen, item)
    /\ consumed' = Append(consumed, item)
    /\ after_reset' = (item = Reset)
    /\ resolved' = IF Effective(item) /\ \A i \in 1..Len(resolved) : resolved[i] # PendingPair(gen, item)
                   THEN Append(resolved, PendingPair(gen, item))
                   ELSE resolved
    /\ budget' = budget - 1
    /\ hist' = IF hist.on
               THEN [hist EXCEPT !.items = Append(@, item), !.spans = @ \o Yielded(gen, item)]
               ELSE hist
    /\ UNCHANGED <<self_attr, self_color_num, pad_vars, main>>

\* the stream is exhausted: "save our pieces before leaving"
EndCall ==
    /\ status = "ok"
    /\ gen.pc = "running"
    /\ self_attr' = gen.attr
    /\ self_color_num' = gen.color_num
    /\ gen' = [gen EXCEPT !.pc = "done"]
    /\ UNCHANGED <<color_map, pair_table, consumed, out, after_reset, resolved, budget,
                   hist, pad_vars, status, main>>

----------------------------------------------------------------------------
(* curses pad primitives used by PadManager *)

Blank == [ch |-> " ", attr |-> Encode({}, 0)]

Positions(size) == (0 .. size[1] - 1) \X (0 .. size[2] - 1)

\* pad.resize(rows, cols): cells inside both sizes are kept, new cells are blank
PadResize(cells, size) ==
    [p \in Positions(size) |-> IF p \in DOMAIN cells THEN cells[p] ELSE Blank]

\* variant: erase leaves the cells as they are
PadEraseNothing(cells) == cells

\* pad.erase()
PadErase(cells) == [p \in DOMAIN cells |-> Blank]

\* A character of a text is a one-character string. Characters that cannot be
\* written in a string here are written as their escape: "\\b" is the backspace,
\* "\\x00" the null character, "\\x01" U+0001, "\\u4e2d" the two-column U+4E2D.
TABSIZE == 8
Tab == "\t"
Newline == "\n"
Return == "\r"
Backspace == "\\b"
Nul == "\\x00"

\* control characters and the two characters curses draws for each
ControlPicture ==
    ("\f" :> <<"^", "L">>) @@ ("\\x01" :> <<"^", "A">>) @@
    ("\\x1b" :> <<"^", "[">>) @@ ("\\x7f" :> <<"^", "?">>)

\* characters two columns wide
WideChars == {"\\u4e2d"}

\* what the second column of a two-column character holds
WideRest == ""

\* The cursor of a pad is [at, wrapped]: its position <<y, x>> and the mark curses sets
\* on the window when the cursor wrapped from the right edge of a row (or could not,
\* in the last row) and takes off when the cursor is placed.
Cursor(at) == [at |-> at, wrapped |-> FALSE]

\* the pad with one cell replaced
PutCell(cells, at, cell) == [p \in DOMAIN cells |-> IF p = at THEN cell ELSE cells[p]]

\* one cell is painted at the cursor and the cursor advances, to the next row from the
\* right edge; from the pad's last cell it cannot advance: the cell is painted and
\* curses returns ERR
AddCell(cells, size, cur, cell) ==
    LET painted == PutCell(cells, cur.at, cell)
    IN  IF cur.at[2] + 1 < size[2]
        THEN [cells |-> painted, cur |-> [cur EXCEPT !.at = <<cur.at[1], cur.at[2] + 1>>],
              raised |-> FALSE]
        ELSE IF cur.at[1] + 1 < size[1]
        THEN [cells |-> painted, cur |-> [at |-> <<cur.at[1] + 1, 0>>, wrapped |-> TRUE],
              raised |-> FALSE]
        ELSE [cells |-> painted, cur |-> [cur EXCEPT !.wrapped = TRUE], raised |-> TRUE]

RECURSIVE AddCells(_, _, _, _)
AddCells(cells, size, cur, new) ==
    IF new = <<>> THEN [cells |-> cells, cur |-> cur, raised |-> FALSE]
    ELSE LET r == AddCell(cells, size, cur, Head(new))
         IN  IF r.raised THEN r ELSE AddCells(r.cells, size, r.cur, Tail(new))

\* wclrtoeol: the row of the cursor is blank from the cursor on; nothing is cleared
\* for a wrapped cursor in the last row
ClearToEol(cells, size, cur) ==
    IF cur.wrapped /\ cur.at[1] = size[1] - 1 THEN cells
    ELSE [p \in DOMAIN cells |->
             IF p[1] = cur.at[1] /\ p[2] >= cur.at[2] THEN Blank ELSE cells[p]]

\* a two-column character: it does not fit a pad of one column; with one column left
\* in the row that column is filled and the character goes to the next row
AddWide(cells, size, cur, ch, attr) ==
    LET first == [ch |-> ch, attr |-> attr]
        rest == [ch |-> WideRest, attr |-> attr]
        fill == AddCell(cells, size, cur, [ch |-> " ", attr |-> attr])
    IN  IF size[2] < 2 THEN [cells |-> cells, cur |-> cur, raised |-> TRUE]
        ELSE IF cur.at[2] + 2 <= size[2]
        THEN AddCell(PutCell(cells, cur.at, first), size,
                     [cur EXCEPT !.at = <<cur.at[1], cur.at[2] + 1>>], rest)
        ELSE IF fill.raised THEN fill
        ELSE AddCell(PutCell(fill.cells, fill.cur.at, first), size,
                     [fill.cur EXCEPT !.at = <<fill.cur.at[1], fill.cur.at[2] + 1>>], rest)

\* one character of an addstr
AddChar(cells, size, cur, ch, attr) ==
    LET y == cur.at[1]
        x == cur.at[2]
        last == (y = size[1] - 1)
        stop == ((x \div TABSIZE) + 1) * TABSIZE
    IN  CASE ch = Tab ->
               IF last \/ stop <= size[2] - 1
               THEN AddCells(cells, size, cur,
                             [i \in 1 .. (stop - x) |-> [ch |-> " ", attr |-> attr]])
               ELSE [cells |-> ClearToEol(cells, size, cur),
                     cur |-> [at |-> <<y + 1, 0>>, wrapped |-> TRUE], raised |-> FALSE]
          [] ch = Newline ->
               IF last
               THEN [cells |-> ClearToEol(cells, size, cur), cur |-> cur, raised |-> TRUE]
               ELSE [cells |-> ClearToEol(cells, size, cur), cur |-> Cursor(<<y + 1, 0>>),
                     raised |-> FALSE]
          [] ch = Return -> [cells |-> cells, cur |-> Cursor(<<y, 0>>), raised |-> FALSE]
          [] ch = Backspace ->
               [cells |-> cells, cur |-> IF x = 0 THEN cur ELSE Cursor(<<y, x - 1>>),
                raised |-> FALSE]
          [] ch \in DOMAIN ControlPicture ->
               AddCells(cells, size, cur,
                        [i \in 1 .. 2 |-> [ch |-> ControlPicture[ch][i], attr |-> attr]])
          [] ch \in WideChars -> AddWide(cells, size, cur, ch, attr)
          [] OTHER -> AddCell(cells, size, cur, [ch |-> ch, attr |-> attr])

RECURSIVE AddChars(_, _, _, _, _)
AddChars(cells, size, cur, text, attr) ==
    IF text = <<>> THEN [cells |-> cells, cur |-> cur, raised |-> FALSE]
    ELSE LET r == AddChar(cells, size, cur, Head(text), attr)
         IN  IF r.raised THEN r ELSE AddChars(r.cells, size, r.cur, Tail(text), attr)

\* pad.addstr(text, attr) at cursor cur: Cursor(<<y, x>>) for addstr(y, x, text, attr),
\* the cursor the call before left for addstr(text, attr). It raises with nothing
\* painted for a cursor outside the pad and for a text that holds a null character;
\* otherwise it paints character by character and raises at the first that curses
\* refuses, the rest unpainted.
AddStr(cells, size, cur, text, attr) ==
    IF cur.at \notin DOMAIN cells \/ \E i \in 1 .. Len(text) : text[i] = Nul
    THEN [cells |-> cells, cur |-> cur, raised |-> TRUE]
    ELSE AddChars(cells, size, cur, text, attr)

----------------------------------------------------------------------------
(* PadManager *)

\* ansi_length: the printing length of an Ansi line
RECURSIVE ansi_length(_)
ansi_length(line) ==
    IF line = <<>> THEN 0
    ELSE (IF Head(line).kind = "str" THEN Len(Head(line).text) ELSE 0) + ansi_length(Tail(line))

\* max(map(ansi_length, ansi_lines))
RECURSIVE MaxLength(_)
MaxLength(lines) ==
    IF Len(lines) = 1 THEN ansi_length(lines[1])
    ELSE MaxNat(ansi_length(Head(lines)), MaxLength(Tail(lines)))

\* variant: no extra column
ResizeToNoPadding(lines) ==
    <<IF Len(lines) # 0 THEN Len(lines) ELSE 1, IF lines # <<>> THEN MaxLength(lines) ELSE 1>>

\* _resize: the <<rows, cols>> given to pad.resize
ResizeTo(lines) ==
    LET lines_y == IF Len(lines) # 0 THEN Len(lines) ELSE 1
        lines_x == IF lines # <<>> THEN MaxLength(lines) ELSE 1
    IN  <<lines_y, lines_x + 1>>

\* translate_ansi_instruction_stream run to exhaustion (or to the raise) by a consumer
\* that only collects the pairs; spans are the pairs yielded on the way.
RECURSIVE TranslateStream(_, _, _, _, _)
TranslateStream(f, cmap, table, stream, spans) ==
    IF stream = <<>> \/ f.pc = "raised"
    THEN [f |-> f, cmap |-> cmap, table |-> table, spans |-> spans]
    ELSE LET r == LoopBody(f, cmap, table, Head(stream))
         IN  TranslateStream(r.f, r.cmap, r.table, Tail(stream),
                             spans \o Yielded(f, Head(stream)))

\* no pad cell copied to the screen
NothingShown == [pminrow |-> 0, pmincol |-> 0, smaxrow |-> -1, smaxcol |-> -1, err |-> FALSE]

\* A call of write (and of the refresh after it) in progress is the record
\*   w = [attr, color_num, cmap, table   the translator and the pair table of curses
\*        size, cells, cur               the pad and its cursor
\*        f                              the generator frame of the line being written
\*        shown                          the rectangle the refresh copied
\*        stop                           "no", or "raised" when an exception of curses
\*                                       has left the call
\*        sigint                         KeyboardInterrupt has been raised for a SIGINT
\*        cuts]                          what w was after each statement that has run
\* A SIGINT makes Python raise KeyboardInterrupt between two statements, so the cuts
\* are the states an interrupted call can be left in. The statements recorded are
\* those that change what is kept: pad.resize, pad.erase, each addstr, init_pair, the
\* store into _color_map, the two assignments that save the style state, and
\* pad.noutrefresh; and every statement that raised, which is where the call stops.
Running(w) == w.stop = "no"

Entered(attr, color_num, cmap, table, size, cells) ==
    [attr |-> attr, color_num |-> color_num, cmap |-> cmap, table |-> table,
     size |-> size, cells |-> cells, cur |-> Cursor(<<0, 0>>), f |-> NoFrame,
     shown |-> NothingShown, stop |-> "no", sigint |-> FALSE, cuts |-> <<>>]

\* a statement has run, to its end or to its raise, and left w
Cut(w) == [w EXCEPT !.cuts = Append(@, [w EXCEPT !.cuts = <<>>])]

\* the generator goes on to its next yield or to its end with one item: a str is
\* yielded and write gives it to addstr (at (y, 0) for the first of the line, at the
\* cursor for the rest); another item runs the loop body, where a new colour pair is
\* given to init_pair first and stored after
WriteItem(w, item) ==
    IF item.kind = "str" THEN
        LET span == Yielded(w.f, item)[1]
            p == AddStr(w.cells, w.size, w.cur, span.text, span.attr)
        IN  Cut([w EXCEPT !.cells = p.cells, !.cur = p.cur,
                          !.stop = IF p.raised THEN "raised" ELSE "no"])
    ELSE
        LET r == LoopBody(w.f, w.cmap, w.table, item)
            called == Cut([w EXCEPT !.table = r.table])
        IN  IF r.f.pc = "raised" THEN Cut([w EXCEPT !.stop = "raised"])
            ELSE IF r.cmap = w.cmap THEN [w EXCEPT !.f = r.f]
            ELSE Cut([called EXCEPT !.f = r.f, !.cmap = r.cmap])

\* the stream is exhausted: "save our pieces before leaving"
Saved(w) ==
    LET first == Cut([w EXCEPT !.attr = w.f.attr])
    IN  Cut([first EXCEPT !.color_num = w.f.color_num])

\* the items of one line, until an exception leaves write; the generator then
\* stays where it was and saves nothing
RECURSIVE WriteItems(_, _)
WriteItems(w, stream) ==
    IF ~Running(w) THEN w
    ELSE IF stream = <<>> THEN Saved(w)
    ELSE WriteItems(WriteItem(w, Head(stream)), Tail(stream))

\* the body of write's loop for line number y (0-based)
WriteLine(w, y, line) ==
    WriteItems([w EXCEPT !.f = SeedFrame(w.attr, w.color_num, w.table),
                         !.cur = Cursor(<<y, 0>>)],
               line)

RECURSIVE WriteLines(_, _, _)
WriteLines(w, y, lines) ==
    IF lines = <<>> \/ ~Running(w) THEN w
    ELSE WriteLines(WriteLine(w, y, Head(lines)), y + 1, Tail(lines))

\* write(ansi_lines) entered as w: _resize, pad.erase(), the loop over the lines
Written(w, lines) ==
    LET size == ResizeTo(lines)
        resized == Cut([w EXCEPT !.size = size, !.cells = PadResize(w.cells, size)])
        erased == Cut([resized EXCEPT !.cells = PadErase(resized.cells)])
    IN  WriteLines(erased, 0, lines)

\* no SIGINT arrives
NoSignal == 0

\* how the call that ran as w is left when SIGINT arrives in or after the statement
\* number `signal` of those recorded: KeyboardInterrupt is raised in the state the
\* statement left. After a statement that raised, the exception of curses is on its way
\* out of run() when KeyboardInterrupt is raised and takes its place.
LeftAt(w, signal) ==
    IF signal = NoSignal THEN w ELSE [w.cuts[signal] EXCEPT !.sigint = TRUE]

\* jump_to / bound arguments: a number, "max", "min" or None
IntTarget(n) == [tag |-> "int", val |-> n]
MaxTarget == [tag |-> "max", val |-> 0]
MinTarget == [tag |-> "min", val |-> 0]
NoTarget == [tag |-> "none", val |-> 0]

NoArgs == <<NoTarget, NoTarget>>

\* PadManager.write(ansi_lines)
Write(lines) ==
    /\ status = "ok"
    /\ gen.pc \in {"none", "done"}
    /\ \E w \in {Written(Entered(self_attr, self_color_num, color_map, pair_table,
                                 pad_size, pad_cells), lines)} :
           /\ pad_size' = w.size
           /\ pad_cells' = w.cells
           /\ self_attr' = w.attr
           /\ self_color_num' = w.color_num
           /\ color_map' = w.cmap
           /\ pair_table' = w.table
           /\ status' = IF w.stop = "raised" THEN "raised" ELSE "ok"
    /\ written' = lines
    /\ last_op' = "write"
    /\ last_args' = NoArgs
    /\ shown' = NothingShown
    /\ UNCHANGED <<coords, term, terminal_vars, call_vars, main>>

\* what bound gives for a value that is neither "max", "min" nor a number:
\* raise ValueError("Invalid value", value)
InvalidValue == "ValueError"

\* variant: a number is only kept above lower
BoundNoUpper(lower, value, upper) ==
    IF value.tag = "max" THEN upper
    ELSE IF value.tag = "min" THEN lower
    ELSE IF value.tag = "int" THEN MaxNat(lower, value.val)
    ELSE InvalidValue

\* bound(lower, value, upper); move_by gives it numbers and jump_to replaces None
\* by the old coordinate first, so neither reaches the raise
bound(lower, value, upper) ==
    IF value.tag = "max" THEN upper
    ELSE IF value.tag = "min" THEN lower
    ELSE IF value.tag = "int" THEN MinNat(MaxNat(lower, value.val), upper)
    ELSE InvalidValue

\* variant: the pad's size is taken as the upper bound
MoveByCoordsFullSize(c, size, move_y, move_x) ==
    <<MinNat(MaxNat(0, c[1] + move_y), size[1]), MinNat(MaxNat(0, c[2] + move_x), size[2])>>

\* the coords move_by(move_y, move_x) stores
MoveByCoords(c, size, move_y, move_x) ==
    <<bound(0, IntTarget(c[1] + move_y), size[1] - 1),
      bound(0, IntTarget(c[2] + move_x), size[2] - 1)>>

\* variant: the pad's size is taken as the upper bound
JumpToCoordsFullSize(c, size, new_y, new_x) ==
    LET ny == IF new_y.tag # "none" THEN new_y ELSE IntTarget(c[1])
        nx == IF new_x.tag # "none" THEN new_x ELSE IntTarget(c[2])
    IN  <<MinNat(MaxNat(0, IF ny.tag = "max" THEN size[1] ELSE IF ny.tag = "min" THEN 0 ELSE ny.val), size[1]),
          MinNat(MaxNat(0, IF nx.tag = "max" THEN size[2] ELSE IF nx.tag = "min" THEN 0 ELSE nx.val), size[2])>>

\* the coords jump_to(new_y, new_x) stores
JumpToCoords(c, size, new_y, new_x) ==
    LET ny == IF new_y.tag # "none" THEN new_y ELSE IntTarget(c[1])
        nx == IF new_x.tag # "none" THEN new_x ELSE IntTarget(c[2])
    IN  <<bound(0, ny, size[1] - 1), bound(0, nx, size[2] - 1)>>

\* PadManager.move_by(move_y, move_x); rec: the specification records the arguments
MoveBy(move_y, move_x, rec) ==
    /\ status = "ok"
    /\ gen.pc \in {"none", "done"}
    /\ coords' = MoveByCoords(coords, pad_size, move_y, move_x)
    /\ last_op' = "move_by"
    /\ last_args' = IF rec THEN <<IntTarget(move_y), IntTarget(move_x)>> ELSE NoArgs
    /\ shown' = NothingShown
    /\ UNCHANGED <<translator_vars, call_vars, pad_size, pad_cells, term, terminal_vars, written,
                   status, main>>

\* PadManager.jump_to(new_y, new_x)
JumpTo(new_y, new_x, rec) ==
    /\ status = "ok"
    /\ gen.pc \in {"none", "done"}
    /\ coords' = JumpToCoords(coords, pad_size, new_y, new_x)
    /\ last_op' = "jump_to"
    /\ last_args' = IF rec THEN <<new_y, new_x>> ELSE NoArgs
    /\ shown' = NothingShown
    /\ UNCHANGED <<translator_vars, call_vars, pad_size, pad_cells, term, terminal_vars, written,
                   status, main>>

\* variant: the copy stops one row above the last screen row
CopyRectReserveLast(c, size, t, scr) ==
    LET pminrow == MaxNat(c[1], 0)
        pmincol == MaxNat(c[2], 0)
        smaxrow == MinNat(t[1] - 2, size[1] - 1 - pminrow)
        smaxcol == MinNat(t[2] - 1, size[2] - 1 - pmincol)
    IN  [pminrow |-> pminrow, pmincol |-> pmincol, smaxrow |-> smaxrow, smaxcol |-> smaxcol,
         err |-> (smaxrow < 0 \/ smaxcol < 0 \/ smaxrow >= scr[1] \/ smaxcol >= scr[2])]

\* pad.noutrefresh(y, x, 0, 0, LINES - 1, COLS - 1) with LINES, COLS = t on a screen of
\* size scr: the rectangle of the screen that receives pad cells, trimmed to the pad;
\* err when curses returns ERR, which it does for an empty rectangle and for one that
\* reaches beyond the screen.
CopyRect(c, size, t, scr) ==
    LET pminrow == MaxNat(c[1], 0)
        pmincol == MaxNat(c[2], 0)
        smaxrow == MinNat(t[1] - 1, size[1] - 1 - pminrow)
        smaxcol == MinNat(t[2] - 1, size[2] - 1 - pmincol)
    IN  [pminrow |-> pminrow, pmincol |-> pmincol, smaxrow |-> smaxrow, smaxcol |-> smaxcol,
         err |-> (smaxrow < 0 \/ smaxcol < 0 \/ smaxrow >= scr[1] \/ smaxcol >= scr[2])]

\* stdscr.move(LINES - 1, 0) with LINES, COLS = t on a screen of size scr: curses
\* returns ERR for a row the screen does not have
MoveOk(t, scr) == t[1] - 1 < scr[1]

\* what curses holds of the terminal: the size of its screen, a SIGWINCH it has not
\* handled yet, the KEY_RESIZE keys in its input queue
Terminal == [screen |-> screen, winch |-> winch, resize_keys |-> resize_keys]

TerminalBecomes(ts) ==
    /\ screen' = ts.screen
    /\ winch' = ts.winch
    /\ resize_keys' = ts.resize_keys

\* curses.doupdate() in a terminal window of the given size: a SIGWINCH not handled
\* yet is handled here, curses resizes its screen to the window and queues KEY_RESIZE
doupdate(ts, size) ==
    IF ts.winch THEN [screen |-> size, winch |-> FALSE, resize_keys |-> ts.resize_keys + 1]
    ELSE ts

\* PadManager.refresh(): the pad is copied, the cursor moved and the screen updated,
\* or one of the first two raises curses.error
Refresh ==
    /\ status = "ok"
    /\ gen.pc \in {"none", "done"}
    /\ LET r == CopyRect(coords, pad_size, term, screen)
           raised == r.err \/ ~MoveOk(term, screen)
       IN  /\ shown' = IF r.err THEN NothingShown ELSE r
           /\ status' = IF raised THEN "raised" ELSE "ok"
           /\ TerminalBecomes(IF raised THEN Terminal ELSE doupdate(Terminal, tty))
    /\ last_op' = "refresh"
    /\ last_args' = NoArgs
    /\ UNCHANGED <<translator_vars, call_vars, pad_size, pad_cells, coords, term, tty, written,
                   main>>

----------------------------------------------------------------------------
(* Viewpane and main *)

\* Viewpane.V_SHIFT, Viewpane.H_SHIFT
V_SHIFT == 1
H_SHIFT == 10

\* the pad PadManager makes when it is given none: curses.newpad(24, 80)
DefaultPadRows == 24
DefaultPadCols == 80

\* Viewpane.KEYMAP: key -> Action value
KEYMAP ==
    ("q" :> "quit") @@ ("KEY_RESIZE" :> "resize") @@
    ("KEY_UP" :> "shift_up") @@ ("KEY_DOWN" :> "shift_down") @@
    ("KEY_LEFT" :> "shift_left") @@ ("KEY_RIGHT" :> "shift_right") @@
    ("KEY_PPAGE" :> "page_up") @@ ("KEY_NPAGE" :> "page_down") @@
    ("KEY_HOME" :> "jump_top") @@ ("KEY_END" :> "jump_bottom") @@
    ("h" :> "shift_left") @@ ("j" :> "shift_down") @@ ("k" :> "shift_up") @@ ("l" :> "shift_right") @@
    ("u" :> "half_page_up") @@ ("d" :> "half_page_down") @@
    ("b" :> "page_up") @@ ("f" :> "page_down") @@
    ("H" :> "page_left") @@ ("J" :> "page_down") @@ ("K" :> "page_up") @@ ("L" :> "page_right") @@
    ("g" :> "jump_top") @@ ("G" :> "jump_bottom") @@ ("0" :> "jump_left") @@ ("$" :> "jump_right")

\* check_keypress returns None: getkey raised "no input"
NoInput == ""

\* interpret_keypress after check_keypress: the Action of the key, "none" for no key or
\* a key KEYMAP does not hold
interpret_keypress(key) ==
    IF key # NoInput /\ key \in DOMAIN KEYMAP THEN KEYMAP[key] ELSE "none"

\* the delta HALF_PAGE_UP and HALF_PAGE_LEFT request: -n // 2 negates first and
\* floors after, \div floors as // does
HalfPageBack(n) == (-n) \div 2

\* the delta HALF_PAGE_DOWN and HALF_PAGE_RIGHT request: n // 2
HalfPageForward(n) == n \div 2

\* variant: the resize action also sends the pad back to its top left corner
ActionCoordsResizeHome(action, c, size, t) ==
    CASE action = "shift_up" -> MoveByCoords(c, size, -V_SHIFT, 0)
      [] action = "shift_down" -> MoveByCoords(c, size, V_SHIFT, 0)
      [] action = "shift_left" -> MoveByCoords(c, size, 0, -H_SHIFT)
      [] action = "shift_right" -> MoveByCoords(c, size, 0, H_SHIFT)
      [] action = "page_up" -> MoveByCoords(c, size, -t[1], 0)
      [] action = "page_down" -> MoveByCoords(c, size, t[1], 0)
      [] action = "page_left" -> MoveByCoords(c, size, 0, -t[2])
      [] action = "page_right" -> MoveByCoords(c, size, 0, t[2])
      [] action = "half_page_up" -> MoveByCoords(c, size, HalfPageBack(t[1]), 0)
      [] action = "half_page_down" -> MoveByCoords(c, size, HalfPageForward(t[1]), 0)
      [] action = "half_page_left" -> MoveByCoords(c, size, 0, HalfPageBack(t[2]))
      [] action = "half_page_right" -> MoveByCoords(c, size, 0, HalfPageForward(t[2]))
      [] action = "jump_top" -> JumpToCoords(c, size, MinTarget, NoTarget)
      [] action = "jump_bottom" -> JumpToCoords(c, size, MaxTarget, NoTarget)
      [] action = "jump_left" -> JumpToCoords(c, size, NoTarget, MinTarget)
      [] action = "jump_right" -> JumpToCoords(c, size, NoTarget, MaxTarget)
      [] OTHER -> <<0, 0>>

\* perform_action: manager.coords after the branch of the action, with LINES, COLS = t
\* (the resize branch calls no PadManager method)
ActionCoords(action, c, size, t) ==
    CASE action = "shift_up" -> MoveByCoords(c, size, -V_SHIFT, 0)
      [] action = "shift_down" -> MoveByCoords(c, size, V_SHIFT, 0)
      [] action = "shift_left" -> MoveByCoords(c, size, 0, -H_SHIFT)
      [] action = "shift_right" -> MoveByCoords(c, size, 0, H_SHIFT)
      [] action = "page_up" -> MoveByCoords(c, size, -t[1], 0)
      [] action = "page_down" -> MoveByCoords(c, size, t[1], 0)
      [] action = "page_left" -> MoveByCoords(c, size, 0, -t[2])
      [] action = "page_right" -> MoveByCoords(c, size, 0, t[2])
      [] action = "half_page_up" -> MoveByCoords(c, size, HalfPageBack(t[1]), 0)
      [] action = "half_page_down" -> MoveByCoords(c, size, HalfPageForward(t[1]), 0)
      [] action = "half_page_left" -> MoveByCoords(c, size, 0, HalfPageBack(t[2]))
      [] action = "half_page_right" -> MoveByCoords(c, size, 0, HalfPageForward(t[2]))
      [] action = "jump_top" -> JumpToCoords(c, size, MinTarget, NoTarget)
      [] action = "jump_bottom" -> JumpToCoords(c, size, MaxTarget, NoTarget)
      [] action = "jump_left" -> JumpToCoords(c, size, NoTarget, MinTarget)
      [] action = "jump_right" -> JumpToCoords(c, size, NoTarget, MaxTarget)
      [] OTHER -> c

\* main's try statement: the value given to exit() for the way curses.wrapper(win_main)
\* ended, as the status the process exits with (exit(exc) prints exc and exits with 1)
ExitStatus(ending) ==
    CASE ending = "quit" -> 0
      [] ending = "KeyboardInterrupt" -> 0
      [] ending = "CalledProcessError" -> 1
      [] ending = "Exception" -> 0

\* main() goes through
\*   "start"    win_main has made the Viewpane, run() has drawn nothing yet
\*   "loop"     the loop of run()
\*   "left"     run() is left: by the break of quit, by the KeyboardInterrupt it
\*              catches, or by an exception; the finally clause of curses.wrapper and
\*              the except clauses of main's try statement are what runs next
\*   "finally"  the finally clause of main's try statement, up to exit(exit_value)
\*   "exited"   the process has ended
\* cause is what ended run(), or the KeyboardInterrupt or the signal that came after.

\* curses.wrapper has called win_main
Started == [pc |-> "start", cause |-> "none", exit_status |-> 0]

\* variant: the loop of run() goes on after the ending
LeftLoopGoesOn(ending) == [pc |-> "loop", cause |-> ending, exit_status |-> 0]

\* run() is left; exit_value is still the 0 main() set before its try statement
Left(ending) == [pc |-> "left", cause |-> ending, exit_status |-> 0]

\* exit(exit_value) has ended the process
Exited(ending) == [pc |-> "exited", cause |-> ending, exit_status |-> ExitStatus(ending)]

\* signal.SIGINT
SIGINT == 2

\* a KeyboardInterrupt nothing catches ends the process: Python restores the default
\* handler and kills itself with SIGINT, so the process has no exit status and the one
\* who waits for it sees the signal (-SIGINT as subprocess.returncode gives it)
Killed == [pc |-> "exited", cause |-> "SIGINT", exit_status |-> -SIGINT]

\* refresh() after a write left as w, with the offset c, LINES and COLS t, on a screen
\* of size scr: up to doupdate()
Refreshed(w, c, t, scr) ==
    LET r == CopyRect(c, w.size, t, scr)
        copied == Cut([w EXCEPT !.shown = r])
    IN  IF ~Running(w) THEN w
        ELSE IF r.err THEN Cut([w EXCEPT !.stop = "raised"])
        ELSE IF ~MoveOk(t, scr) THEN Cut([copied EXCEPT !.stop = "raised"])
        ELSE copied

\* draw() with the command's output lines, up to the doupdate() of refresh()
Drawn(lines) ==
    Refreshed(Written(Entered(self_attr, self_color_num, color_map, pair_table,
                              pad_size, pad_cells), lines),
              coords, term, screen)

\* Viewpane.draw(): execute the command (its output is lines), write, refresh. An
\* exception of curses leaves run() and main() catches it; a SIGINT that arrives in
\* write or refresh raises KeyboardInterrupt there, which run() catches, or, when the
\* statement it arrives in raises, on the way out of run(), which main() catches.
Draw(lines) ==
    /\ status = "ok"
    /\ main.pc \in {"start", "loop"}
    /\ \E whole \in {Drawn(lines)} :
       \E signal \in {NoSignal} \cup (1 .. Len(whole.cuts)) :
       \E w \in {LeftAt(whole, signal)} :
           /\ pad_size' = w.size
           /\ pad_cells' = w.cells
           /\ self_attr' = w.attr
           /\ self_color_num' = w.color_num
           /\ color_map' = w.cmap
           /\ pair_table' = w.table
           /\ shown' = w.shown
           /\ status' = IF w.stop = "raised" THEN "raised" ELSE "ok"
           /\ main' = CASE w.sigint -> Left("KeyboardInterrupt")
                        [] w.stop = "raised" -> Left("Exception")
                        [] OTHER -> [main EXCEPT !.pc = "loop"]
           /\ TerminalBecomes(IF Running(w) /\ ~w.sigint THEN doupdate(Terminal, tty)
                              ELSE Terminal)
    /\ last_op' = "draw"
    /\ written' = lines
    /\ last_args' = NoArgs
    /\ UNCHANGED <<coords, term, tty, call_vars>>

\* pad.getkey() in half-delay mode when the user has typed the key `typed` (NoInput:
\* nothing): a queued KEY_RESIZE comes first, then the typed key; with neither, a
\* SIGWINCH not handled yet is handled here and its KEY_RESIZE is returned at once;
\* otherwise getkey raises "no input"
getkey(typed, ts, size) ==
    IF ts.resize_keys > 0 THEN [key |-> "KEY_RESIZE", ts |-> [ts EXCEPT !.resize_keys = @ - 1]]
    ELSE IF typed # NoInput THEN [key |-> typed, ts |-> ts]
    ELSE IF ts.winch
         THEN [key |-> "KEY_RESIZE", ts |-> [doupdate(ts, size) EXCEPT !.resize_keys = @ - 1]]
    ELSE [key |-> NoInput, ts |-> ts]

\* the statements of read_and_interpret_keypress after which SIGINT can arrive:
\* 1 getkey, 2 the branch of the action in perform_action (move_by, jump_to,
\* update_lines_cols), 3 pad.noutrefresh in refresh(), 4 the statement of refresh()
\* that raised
KeypressSignals == 1 .. 4

\* read_and_interpret_keypress() in the loop of run(): typed is the key the user has
\* typed (NoInput: none), signal the statement after which SIGINT arrives.
\* update_lines_cols() sets LINES and COLS to the size of the screen of curses.
Keypress(typed) ==
    /\ status = "ok"
    /\ main.pc = "loop"
    /\ \E got \in {getkey(typed, Terminal, tty)} :
       \E action \in {interpret_keypress(got.key)} :
       \E signal \in {NoSignal} \cup KeypressSignals :
          IF signal = 1 THEN
              /\ last_op' = "interrupt"
              /\ shown' = NothingShown
              /\ main' = Left("KeyboardInterrupt")
              /\ TerminalBecomes(got.ts)
              /\ UNCHANGED <<coords, term, status>>
          ELSE IF action = "none" THEN
              /\ signal = NoSignal
              /\ last_op' = action
              /\ shown' = NothingShown
              /\ TerminalBecomes(got.ts)
              /\ UNCHANGED <<coords, term, status, main>>
          ELSE IF action = "quit" THEN
              /\ signal = NoSignal
              /\ last_op' = action
              /\ shown' = NothingShown
              /\ main' = Left("quit")
              /\ TerminalBecomes(got.ts)
              /\ UNCHANGED <<coords, term, status>>
          ELSE
              \E t \in {IF action = "resize" THEN got.ts.screen ELSE term} :
              \E c \in {ActionCoords(action, coords, pad_size, term)} :
              \E r \in {CopyRect(c, pad_size, t, got.ts.screen)} :
              \E raised \in {r.err \/ ~MoveOk(t, got.ts.screen)} :
                  /\ signal = 3 => ~r.err
                  /\ signal = 4 => raised
                  /\ last_op' = action
                  /\ term' = t
                  /\ coords' = c
                  /\ shown' = IF r.err \/ signal = 2 THEN NothingShown ELSE r
                  /\ status' = IF raised /\ signal \in {NoSignal, 4} THEN "raised" ELSE "ok"
                  /\ main' = IF signal # NoSignal THEN Left("KeyboardInterrupt")
                             ELSE IF raised THEN Left("Exception")
                             ELSE main
                  /\ TerminalBecomes(IF signal = NoSignal /\ ~raised
                                     THEN doupdate(got.ts, tty) ELSE got.ts)
    /\ last_args' = NoArgs
    /\ UNCHANGED <<translator_vars, call_vars, pad_size, pad_cells, written, tty>>

\* the user resizes the terminal window while run() is going: the terminal sends
\* SIGWINCH, which curses notes and handles in its next doupdate() or idle getkey().
\* The window is left alone while the queue of curses is full of KEY_RESIZE keys
\* (MaxResizeKeys bounds the queue, curses does not).
WindowChange(size) ==
    /\ main.pc \in {"start", "loop"}
    /\ size # tty
    /\ winch \/ resize_keys < MaxResizeKeys
    /\ tty' = size
    /\ winch' = TRUE
    /\ last_op' = "sigwinch"
    /\ last_args' = NoArgs
    /\ shown' = NothingShown
    /\ UNCHANGED <<translator_vars, call_vars, pad_size, pad_cells, coords, term, screen,
                   resize_keys, written, status, main>>

\* Ctrl-C outside a draw and an action. While run() is in its try statement (in
\* execute(), in getkey(), between two steps of the loop) run() catches the
\* KeyboardInterrupt and returns; before that, and once run() is left, it goes up to
\* main(), whose except clause catches it, or it takes the place of the exception that
\* was going up; either way the finally clause of main() is next. In that finally
\* clause nothing catches it: the process is killed by SIGINT before it calls exit().
Interrupt ==
    /\ main.pc \in {"start", "loop", "left", "finally"}
    /\ main' = CASE main.pc \in {"start", "loop"} -> Left("KeyboardInterrupt")
                 [] main.pc = "left" -> [Left("KeyboardInterrupt") EXCEPT !.pc = "finally"]
                 [] main.pc = "finally" -> Killed
    /\ last_op' = "interrupt"
    /\ last_args' = NoArgs
    /\ shown' = NothingShown
    /\ UNCHANGED <<translator_vars, call_vars, pad_size, pad_cells, coords, term, terminal_vars,
                   written, status>>

\* run() is left and no signal arrives: curses.wrapper restores the terminal, main()
\* takes the except clause of what left run() (none for a return) and enters its
\* finally clause
Unwind ==
    /\ main.pc = "left"
    /\ main' = [main EXCEPT !.pc = "finally"]
    /\ last_op' = "unwind"
    /\ last_args' = NoArgs
    /\ shown' = NothingShown
    /\ UNCHANGED <<translator_vars, call_vars, pad_size, pad_cells, coords, term, terminal_vars,
                   written, status>>

\* the finally clause of main(): exit(exit_value)
Exit ==
    /\ main.pc = "finally"
    /\ main' = Exited(main.cause)
    /\ last_op' = "exit"
    /\ last_args' = NoArgs
    /\ shown' = NothingShown
    /\ UNCHANGED <<translator_vars, call_vars, pad_size, pad_cells, coords, term, terminal_vars,
                   written, status>>

----------------------------------------------------------------------------
(* Initial states and inputs *)

EmptyMap == [p \in {} |-> 0]

\* no history of the translate calls is recorded
NoHist == [on |-> FALSE, calls |-> 0, items |-> <<>>, spans |-> <<>>]

\* main() has not been entered: the objects are driven directly
NotRun == [pc |-> "none", cause |-> "none", exit_status |-> 0]

\* the translator and the pad manager driven directly by their caller
InitDirect == hist = NoHist /\ main = NotRun

\* StransiInstructionStreamTranslator() with default arguments, curses after
\* use_default_colors(): pair 0 is (-1, -1)
InitTranslator ==
    /\ self_attr = {}
    /\ self_color_num = 0
    /\ color_map = EmptyMap
    /\ pair_table = (0 :> <<DefaultColor, DefaultColor>>)
    /\ gen = NoFrame
    /\ consumed = <<>>
    /\ out = <<>>
    /\ after_reset = FALSE
    /\ resolved = <<>>
    /\ budget = MaxBudget
    /\ status = "ok"

\* PadManager(stdscr, pad, coords) on an empty pad of the given size
InitPad(size, c) ==
    /\ pad_size = size
    /\ pad_cells = [p \in Positions(size) |-> Blank]
    /\ coords = c
    /\ term = <<TermRows, TermCols>>
    /\ screen = <<TermRows, TermCols>>
    /\ tty = <<TermRows, TermCols>>
    /\ winch = FALSE
    /\ resize_keys = 0
    /\ shown = NothingShown
    /\ written = <<>>
    /\ last_op = "init"
    /\ last_args = NoArgs

InitSizes == (1 .. InitRows) \X (1 .. InitCols)

SeqsUpTo(S, n) == UNION {[1 .. k -> S] : k \in 0 .. n}

TextA == <<"a">>
TextBC == <<"b", "c">>
TextABC == <<"a", "b", "c">>
TextX == <<"x">>
TextHi == <<"h", "i">>
TextLo == <<"l", "o">>
\* a text that ends in a tab: the tab stop is beyond the pad write makes for it
TextTab == <<"a", Tab>>

\* lines given to write
PadLines ==
    { <<>>,
      <<Text(TextABC)>>,
      <<Text(TextA), SetAttribute("BOLD"), Text(TextBC)>>,
      <<Reset, Text(TextA)>> }

WriteInputs == SeqsUpTo(PadLines, MaxLines)

Deltas == (-MaxDelta) .. MaxDelta

Targets == {MinTarget, MaxTarget, NoTarget, IntTarget(-1), IntTarget(MaxDelta + 1)}

\* items of the streams given to direct translate calls
StreamItems ==
    { Text(TextX), SetForeground(Red), SetForeground(Blue), SetBackground(Blue),
      SetForeground(Grey), Reset, SetAttribute("BOLD") }

\* the stream of the scenario
Scenario == <<SetForeground(Red), SetBackground(Blue), Text(TextHi), Reset, Text(TextLo)>>

ScenarioItems == {Scenario[i] : i \in 1 .. Len(Scenario)}

----------------------------------------------------------------------------
(* Specifications *)

\* PadManager: any interleaving of its calls
Init == InitTranslator /\ InitPad(<<InitRows, InitCols>>, <<0, 0>>) /\ InitDirect

Next ==
    \/ \E lines \in WriteInputs : Write(lines)
    \/ \E dy \in Deltas, dx \in Deltas : MoveBy(dy, dx, FALSE)
    \/ \E ty \in Targets, tx \in Targets : JumpTo(ty, tx, FALSE)
    \/ Refresh

Spec == Init /\ [][Next]_vars

\* Scrolling alone on a pad of fixed size, arguments recorded
InitScroll ==
    /\ InitTranslator
    /\ \E size \in InitSizes : \E c \in Positions(size) : InitPad(size, c)
    /\ InitDirect

NextScroll ==
    \/ \E dy \in Deltas, dx \in Deltas : MoveBy(dy, dx, TRUE)
    \/ \E ty \in Targets, tx \in Targets : JumpTo(ty, tx, TRUE)

SpecScroll == InitScroll /\ [][NextScroll]_vars

\* The translator alone: translate calls on any streams over StreamItems
InitCalls == InitTranslator /\ InitPad(<<InitRows, InitCols>>, <<0, 0>>) /\ InitDirect

NextCalls ==
    \/ BeginCall
    \/ \E item \in StreamItems : Consume(item)
    \/ EndCall

SpecCalls == InitCalls /\ [][NextCalls]_vars

\* Translate calls on streams that set both colours of a pair, which is what comes to
\* the limit of the pair table
CapacityItems ==
    {SetForeground(Red), SetForeground(Blue), SetBackground(Red), SetBackground(Blue),
     Text(TextX)}

NextCapacity ==
    \/ BeginCall
    \/ \E item \in CapacityItems : Consume(item)
    \/ EndCall

SpecCapacity == InitCalls /\ [][NextCapacity]_vars

\* One translate call on a fresh translator, on any stream over the scenario's items
NextScenario ==
    \/ (gen.pc = "none" /\ BeginCall)
    \/ \E item \in ScenarioItems : Consume(item)
    \/ EndCall

SpecScenario == InitCalls /\ [][NextScenario]_vars

\* One stream given to a fresh translator in two translate calls, the history recorded
SplitItems == {SetForeground(Red), SetBackground(Blue), Reset, Text(TextX)}

InitSplit ==
    /\ InitTranslator
    /\ InitPad(<<InitRows, InitCols>>, <<0, 0>>)
    /\ hist = [NoHist EXCEPT !.on = TRUE]
    /\ main = NotRun

NextSplit ==
    \/ (hist.calls < 2 /\ BeginCall)
    \/ \E item \in SplitItems : Consume(item)
    \/ EndCall

SpecSplit == InitSplit /\ [][NextSplit]_vars

\* One translate call on a translator made with init_attr, on a stream of attribute
\* instructions
MaxAttrItems == 2

AllFlags == {"A_BLINK", "A_BOLD", "A_DIM", "A_INVIS", "A_ITALIC", "A_REVERSE", "A_UNDERLINE"}

InitAttrs == {{}, AllFlags, {"A_BOLD", "A_DIM"}, {"A_DIM", "A_UNDERLINE"}}

EnablingAttributes == {"BLINK", "BOLD", "DIM", "HIDDEN", "ITALIC", "REVERSE", "UNDERLINE"}

DisablingAttributes ==
    {"NEITHER_BOLD_NOR_DIM", "NOT_BLINK", "NOT_HIDDEN", "NOT_ITALIC", "NOT_REVERSE", "NOT_UNDERLINE"}

AttrItems ==
    {SetAttribute(a) : a \in EnablingAttributes \cup DisablingAttributes}
        \cup {SetForeground(Red), Text(TextX)}

\* init_color_num is None
NoColorNum == -1

\* the constructor's arguments <<init_attr, init_color_num>>
InitArgs == {<<a, NoColorNum>> : a \in InitAttrs} \cup {<<AllFlags, 0>>}

\* curses.pair_number(attr) takes a C int and A_ITALIC is 2^31: it raises
\* OverflowError for an attr that holds A_ITALIC
PairNumberOk(attr) == "A_ITALIC" \notin attr

\* __init__(init_attr, init_color_num): <<_attr, _color_num, status>>. An init_attr
\* here carries no colour pair: pair_number gives 0 and nothing is masked out of it.
Constructed(init_attr, init_color_num) ==
    IF init_color_num # NoColorNum THEN <<init_attr, init_color_num, "ok">>
    ELSE IF PairNumberOk(init_attr) THEN <<init_attr, 0, "ok">>
    ELSE <<{}, 0, "raised">>

InitFlags ==
    /\ \E args \in InitArgs :
          /\ self_attr = Constructed(args[1], args[2])[1]
          /\ self_color_num = Constructed(args[1], args[2])[2]
          /\ status = Constructed(args[1], args[2])[3]
    /\ color_map = EmptyMap
    /\ pair_table = (0 :> <<DefaultColor, DefaultColor>>)
    /\ gen = NoFrame
    /\ consumed = <<>>
    /\ out = <<>>
    /\ after_reset = FALSE
    /\ resolved = <<>>
    /\ budget = MaxAttrItems
    /\ InitPad(<<InitRows, InitCols>>, <<0, 0>>)
    /\ InitDirect

NextFlags ==
    \/ (gen.pc = "none" /\ BeginCall)
    \/ \E item \in AttrItems : Consume(item)
    \/ EndCall

SpecFlags == InitFlags /\ [][NextFlags]_vars

\* One translate call on a fresh translator, on a stream that holds instructions the
\* loop skips: a SetColor without colour, a SetColor of another role, another instruction
ColorlessColor == SetColor("FOREGROUND", NoColor)
OtherRoleColor == SetColor("OTHER", Red)

SkippedItems == {ColorlessColor, OtherRoleColor, OtherInstruction}

SkipItems == SkippedItems \cup {SetForeground(Red), SetAttribute("BOLD"), Text(TextX)}

NextSkip ==
    \/ (gen.pc = "none" /\ BeginCall)
    \/ \E item \in SkipItems : Consume(item)
    \/ EndCall

SpecSkip == InitCalls /\ [][NextSkip]_vars

\* The program: main() runs a Viewpane on a terminal of TermRows x TermCols; the command
\* prints any of Outputs, the user types any key of Keys or none, resizes the terminal
\* window to any of TermSizes and presses Ctrl-C at any time
Keys == (DOMAIN KEYMAP \ {"KEY_RESIZE"}) \cup {"x", NoInput}

TermSizes == {<<TermRows, TermCols>>, <<TermRows + 1, TermCols + 2>>}

InitView ==
    /\ InitTranslator
    /\ InitPad(<<DefaultPadRows, DefaultPadCols>>, <<0, 0>>)
    /\ hist = NoHist
    /\ main = Started

\* a line with a tab and a colour after it
TabThenRed == <<Text(TextTab), SetForeground(Red), Text(TextA)>>

\* what the command prints: up to MaxLines lines, or the one short line
Outputs == SeqsUpTo({<<Text(TextABC)>>, TabThenRed}, MaxLines) \cup {<<<<Text(TextA)>>>>}

NextView ==
    \/ \E lines \in Outputs : Draw(lines)
    \/ \E key \in Keys : Keypress(key)
    \/ \E size \in TermSizes : WindowChange(size)
    \/ Interrupt
    \/ Unwind
    \/ Exit

SpecView == InitView /\ [][NextView]_vars

----------------------------------------------------------------------------
(* Properties *)

Last(seq) == seq[Len(seq)]

\* the characters of a line's str items, left to right
RECURSIVE LineText(_)
LineText(line) ==
    IF line = <<>> THEN <<>>
    ELSE (IF Head(line).kind = "str" THEN Head(line).text ELSE <<>>) \o LineText(Tail(line))

\* width of the widest line, 0 for no lines
Widest(lines) ==
    IF lines = <<>> THEN 0
    ELSE CHOOSE n \in {Len(LineText(lines[i])) : i \in 1 .. Len(lines)} :
            \A i \in 1 .. Len(lines) : Len(LineText(lines[i])) <= n

OffsetInside ==
    /\ 0 <= coords[1] /\ coords[1] <= pad_size[1] - 1
    /\ 0 <= coords[2] /\ coords[2] <= pad_size[2] - 1

\* C1: in every reachable state, after any interleaving of write, move_by and jump_to
\* (a write smaller than the previous content included), the offset satisfies
\* 0 <= y <= rows-1 and 0 <= x <= cols-1 for the pad's current size.
C1_OffsetAlwaysInside == OffsetInside

\* C2: on a pad of fixed size whose offset starts inside it, after any sequence of
\* move_by calls with arbitrary deltas the offset is inside the pad.
C2_MoveByStaysInside == last_op = "move_by" => OffsetInside

\* a move_by whose delta would have left the pad on both axes, and saturated
C2_Witness ==
    /\ last_op = "move_by"
    /\ last_args = <<IntTarget(MaxDelta), IntTarget(-MaxDelta)>>
    /\ pad_size = <<1, InitCols>>
    /\ coords = <<0, 0>>

ScenarioDone == gen.pc = "done" /\ consumed = Scenario

\* C3 as claimed: the scenario stream on a fresh translator yields ("hi", no flags, slot
\* of (red, blue)) then ("lo", 0), and the registry then has exactly one entry,
\* slot 1 -> (red, blue).
C3_ScenarioOneEntry ==
    ScenarioDone =>
        /\ DOMAIN color_map = {<<Red, Blue>>}
        /\ color_map[<<Red, Blue>>] = 1
        /\ out = <<[text |-> TextHi, attr |-> Encode({}, color_map[<<Red, Blue>>])],
                   [text |-> TextLo, attr |-> Encode({}, 0)]>>

\* C3 amended: the scenario stream on a fresh translator yields ("hi", no flags, slot of
\* (red, blue)) then ("lo", 0); the registry then has exactly two entries,
\* slot 1 -> (red, default background) and slot 2 -> (red, blue).
C3_ScenarioTwoEntries ==
    ScenarioDone =>
        /\ DOMAIN color_map = {<<Red, DefaultColor>>, <<Red, Blue>>}
        /\ color_map[<<Red, DefaultColor>>] = 1
        /\ color_map[<<Red, Blue>>] = 2
        /\ out = <<[text |-> TextHi, attr |-> Encode({}, color_map[<<Red, Blue>>])],
                   [text |-> TextLo, attr |-> Encode({}, 0)]>>

C3_Witness == ScenarioDone /\ Len(out) = 2

\* the step took one more item from the stream
Took(item) == consumed' = Append(consumed, item)

\* current maximum slot + 1, 1 for an empty registry
SlotAfterMax(cmap) ==
    CHOOSE n \in 1 .. Cardinality(DOMAIN cmap) + 1 :
        /\ \A q \in DOMAIN cmap : cmap[q] < n
        /\ n = 1 \/ \E q \in DOMAIN cmap : cmap[q] = n - 1

\* the i-th distinct pair looked up holds slot i; only the pair looked up last may
\* be without one (init_pair refused it)
SlotsInOrder(cmap, order) ==
    /\ DOMAIN cmap \subseteq {order[i] : i \in 1 .. Len(order)}
    /\ \A i \in 1 .. Len(order) :
          /\ order[i] \in DOMAIN cmap => cmap[order[i]] = i
          /\ i < Len(order) => order[i] \in DOMAIN cmap

C4_Step ==
    \A item \in StreamItems :
        (Took(item) /\ Effective(item)) =>
            LET pair == PendingPair(gen, item)
            IN  /\ pair \in DOMAIN color_map =>
                    /\ gen'.color_num = color_map[pair]
                    /\ color_map' = color_map
                    /\ status' = "ok"
                /\ (/\ pair \notin DOMAIN color_map
                    /\ pair[1] < COLORS /\ pair[2] < COLORS
                    /\ SlotAfterMax(color_map) <= PairLimit(SlotAfterMax(color_map), pair, pair_table)) =>
                    /\ gen'.color_num = SlotAfterMax(color_map)
                    /\ color_map' = (pair :> SlotAfterMax(color_map)) @@ color_map
                    /\ status' = "ok"
                /\ SlotsInOrder(color_map', resolved')

\* C4: resolving a pair the registry holds returns its slot and leaves the registry
\* unchanged; resolving a new pair returns the current maximum slot + 1 (1 when empty)
\* and records it; N distinct pairs resolved in order get slots 1..N in that order,
\* across translate calls (as long as init_pair accepts the slot and the two colours).
C4_Resolve == [][C4_Step]_vars

\* three pairs got slots 1, 2, 3 in one call; a later call looked up the first pair
\* again and got slot 1
C4_Witness ==
    /\ Len(resolved) = 3
    /\ resolved[3] \in DOMAIN color_map
    /\ color_map[resolved[3]] = 3
    /\ gen.pc = "running"
    /\ Len(consumed) = 1
    /\ Effective(consumed[1])
    /\ PendingPair(SeedFrame(self_attr, self_color_num, pair_table), consumed[1]) = resolved[1]
    /\ gen.color_num = 1

C5_Step ==
    \A item \in StreamItems :
        (Took(item) /\ item.kind = "str" /\ after_reset) =>
            /\ Len(out') = Len(out) + 1
            /\ Last(out').text = item.text
            /\ Last(out').attr = Encode({}, 0)

\* C5: whatever the flags and the active slot were, the first text span emitted after a
\* SetAttribute(NORMAL), with no instruction in between, carries zero flags and slot 0.
C5_TextAfterReset == [][C5_Step]_vars

\* a call entered with bold set and a colour slot active took Reset, then a text
C5_Witness ==
    /\ "A_BOLD" \in self_attr
    /\ self_color_num # 0
    /\ consumed = <<Reset, Text(TextX)>>
    /\ Len(out) = 1

C6_Step ==
    (gen.pc = "running" /\ gen'.pc = "done" /\ consumed = <<Text(TextX)>>) =>
        out = <<[text |-> TextX, attr |-> Encode(self_attr, self_color_num)]>>

\* C6: style state persists between translate calls: a call whose stream is only
\* Text("x") emits ("x", attr) where attr carries the flags and the colour slot that the
\* previous fully consumed call ended with.
C6_StatePersists == [][C6_Step]_vars

\* the call before ended with bold set and slot 1 active; this one emitted ("x", bold|slot 1)
C6_Witness ==
    /\ gen.pc = "done"
    /\ consumed = <<Text(TextX)>>
    /\ out = <<[text |-> TextX, attr |-> Encode({"A_BOLD"}, 1)]>>

\* C7 as claimed: after write(lines) the pad has max(1, number of lines) rows and
\* max(1, widest line) + 1 columns, for every input.
C7_SizeWithMinWidth ==
    last_op = "write" =>
        pad_size = <<MaxNat(1, Len(written)), MaxNat(1, Widest(written)) + 1>>

\* C7 amended: after write(lines) the pad has max(1, number of lines) rows, and
\* widest line + 1 columns when lines is not empty (1 column when every line is
\* empty), 2 columns when lines is empty.
C7_Size ==
    last_op = "write" =>
        pad_size = <<MaxNat(1, Len(written)),
                     IF written = <<>> THEN 2 ELSE Widest(written) + 1>>

\* a write of one empty line, after a larger pad
C7_Witness ==
    /\ last_op = "write"
    /\ written = << <<>> >>
    /\ pad_size = <<1, 1>>
    /\ coords[2] >= 1

\* the character write(lines) alone paints at position p
PaintedCh(lines, p) ==
    IF p[1] + 1 <= Len(lines) /\ p[2] + 1 <= Len(LineText(lines[p[1] + 1]))
    THEN LineText(lines[p[1] + 1])[p[2] + 1]
    ELSE " "

\* C8: after write(A) then write(B) every cell holds what B alone paints (the text of
\* B's spans from column 0 of each row, blank elsewhere) and the pad has B's size, also
\* when B is narrower or shorter than A.
C8_WriteReplaces ==
    (last_op = "write" /\ status = "ok") =>
        /\ DOMAIN pad_cells = Positions(pad_size)
        /\ pad_size[1] = MaxNat(1, Len(written))
        /\ pad_size[2] > Widest(written)
        /\ \A p \in DOMAIN pad_cells :
              /\ pad_cells[p].ch = PaintedCh(written, p)
              /\ (p[1] + 1 > Len(written) \/ p[2] + 1 > Len(LineText(written[p[1] + 1])))
                     => pad_cells[p] = Blank

\* B = ["a"] written over a pad that was two rows of "abc": the offset still points at
\* the old bottom right corner
C8_Witness ==
    /\ last_op = "write"
    /\ status = "ok"
    /\ written = << <<Reset, Text(TextA)>> >>
    /\ pad_size = <<1, 2>>
    /\ coords = <<1, InitCols>>

\* C9: jump_to(max, max) on a pad of size (R, C) sets the offset to (R-1, C-1) and
\* jump_to(min, min) sets it to (0, 0), whatever the offset was.
C9_JumpToEdges ==
    /\ (last_op = "jump_to" /\ last_args = <<MaxTarget, MaxTarget>>)
           => coords = <<pad_size[1] - 1, pad_size[2] - 1>>
    /\ (last_op = "jump_to" /\ last_args = <<MinTarget, MinTarget>>)
           => coords = <<0, 0>>

C9_Witness ==
    /\ last_op = "jump_to"
    /\ last_args = <<MaxTarget, MaxTarget>>
    /\ pad_size = <<InitRows, InitCols>>
    /\ coords = <<InitRows - 1, InitCols - 1>>

\* screen rows that received pad cells in the latest refresh
RowsPainted == 0 .. shown.smaxrow

\* C10 as claimed: refresh projects pad content only onto screen rows 0 .. LINES-2;
\* the last screen row is never painted.
C10_LastRowReserved ==
    last_op = "refresh" => RowsPainted \subseteq 0 .. term[1] - 2

\* C10 amended: refresh projects pad content onto the screen rows r in 0 .. LINES-1
\* for which the pad has a row y + r; the last screen row is painted too when the pad
\* reaches it.
C10_RowsPainted ==
    (last_op = "refresh" /\ status = "ok") =>
        RowsPainted = {r \in 0 .. term[1] - 1 : coords[1] + r <= pad_size[1] - 1}

\* a refresh that painted the last screen row
C10_Witness ==
    /\ last_op = "refresh"
    /\ status = "ok"
    /\ term[1] - 1 \in RowsPainted
    /\ written # <<>>

\* the actions of perform_action that call move_by or jump_to
ShiftActions == {"shift_up", "shift_down", "shift_left", "shift_right"}
PageActions == {"page_up", "page_down", "page_left", "page_right"}
HalfPageActions == {"half_page_up", "half_page_down", "half_page_left", "half_page_right"}
JumpActions == {"jump_top", "jump_bottom", "jump_left", "jump_right"}
ScrollActions == ShiftActions \cup PageActions \cup HalfPageActions \cup JumpActions

\* the pad is smaller on axis i than the screen: than LINES/COLS, which the program
\* takes for the screen's size, than the screen of curses, or than the terminal window
SmallerThanScreen(i) ==
    \/ pad_size[i] < term[i]
    \/ pad_size[i] < screen[i]
    \/ pad_size[i] < tty[i]

\* C11 as claimed: when the pad is smaller than the screen on an axis, any sequence of
\* shift, page, half-page and edge-jump actions leaves the offset on that axis at 0.
C11_StaysAtZero ==
    last_op \in ScrollActions =>
        /\ pad_size[1] < term[1] => coords[1] = 0
        /\ pad_size[2] < term[2] => coords[2] = 0

\* C11 amended: when the pad is smaller than the screen on an axis, any sequence of
\* shift, page, half-page and edge-jump actions leaves the offset on that axis inside
\* 0 .. dimension-1, as on any pad; it is 0 for certain only when the pad has a single
\* row (column) on that axis.
C11_InsideWhenSmaller ==
    last_op \in ScrollActions =>
        /\ SmallerThanScreen(1) =>
              /\ coords[1] \in 0 .. pad_size[1] - 1
              /\ pad_size[1] = 1 => coords[1] = 0
        /\ SmallerThanScreen(2) =>
              /\ coords[2] \in 0 .. pad_size[2] - 1
              /\ pad_size[2] = 1 => coords[2] = 0

\* two lines on a screen of three: shift down moved the offset to row 1
C11_Witness ==
    /\ last_op = "shift_down"
    /\ Len(written) = 2
    /\ pad_size[1] < term[1]
    /\ term = screen
    /\ screen = tty
    /\ coords[1] = 1
    /\ status = "ok"

\* C12: the process exits with status 0 when the run ends by a user-initiated quit, and
\* with a non-zero status whenever it ends because an unexpected error unwound to main.
C12_ExitStatus ==
    main.pc = "exited" =>
        /\ main.cause \in {"quit", "KeyboardInterrupt"} => main.exit_status = 0
        /\ main.cause \in {"Exception", "CalledProcessError"} => main.exit_status # 0

C13_Step ==
    \A item \in CapacityItems :
        (Took(item) /\ Effective(item)) =>
            LET pair == PendingPair(gen, item)
            IN  (/\ pair \notin DOMAIN color_map
                 /\ SlotAfterMax(color_map) > PairLimit(SlotAfterMax(color_map), pair, pair_table)) =>
                    /\ status' = "raised"
                    /\ gen'.pc = "raised"
                    /\ out' = out
                    /\ color_map' = color_map
                    /\ pair \notin DOMAIN color_map'
                    /\ pair_table' = pair_table
                    /\ self_attr' = self_attr /\ self_color_num' = self_color_num

\* C13: when the slot a new pair would get is beyond the numbers init_pair accepts
\* (PairLimit), the translate call fails with an exception that reaches its caller; the new pair is given
\* neither slot 0 nor a slot in use, and every registered pair -> slot mapping is as
\* it was.
C13_CapacityFailure == [][C13_Step]_vars

\* the registry holds COLOR_PAIRS + 2 pairs, one of them with a default colour (as
\* pair 0 has), and a further pair of two colours was refused
C13_Witness ==
    /\ status = "raised"
    /\ gen.pc = "raised"
    /\ Cardinality(DOMAIN color_map) = COLOR_PAIRS + 2
    /\ DefaultPairs(pair_table) = 2
    /\ Effective(Last(consumed))
    /\ Last(resolved) \notin DOMAIN color_map

\* one translate call on a fresh translator given the whole of stream
WholeCall(stream) ==
    TranslateStream(SeedFrame({}, 0, (0 :> <<DefaultColor, DefaultColor>>)), EmptyMap,
                    (0 :> <<DefaultColor, DefaultColor>>), stream, <<>>)

\* C14: translate(A) consumed to its end, then translate(B), on the same translator,
\* emits the same spans and leaves the same style state and registry as one
\* translate(A ++ B); a SetForeground or SetBackground after a Reset resolves the same
\* pair in both runs.
C14_SplitIndependent ==
    (hist.calls = 2 /\ gen.pc = "done") =>
        /\ WholeCall(hist.items).spans = hist.spans
        /\ WholeCall(hist.items).f.attr = self_attr
        /\ WholeCall(hist.items).f.color_num = self_color_num
        /\ WholeCall(hist.items).cmap = color_map

\* the slots a registry holds
Slots(cmap) == {cmap[p] : p \in DOMAIN cmap}

Injective(cmap) == \A p, q \in DOMAIN cmap : cmap[p] = cmap[q] => p = q

C15_Step ==
    /\ \A p \in DOMAIN color_map : p \in DOMAIN color_map' /\ color_map'[p] = color_map[p]
    /\ Injective(color_map')
    /\ 0 \notin Slots(color_map')
    /\ Took(Reset) =>
          /\ color_map' = color_map
          /\ pair_table' = pair_table
          /\ gen'.color_num = 0

\* C15: over any sequence of translate calls, Reset included, a pair -> slot mapping
\* once present is never removed or changed, no two pairs map to the same slot and slot 0
\* is never given to a pair; Reset leaves the registry as it is and sets the active
\* slot to 0.
C15_RegistryGrows == [][C15_Step]_vars

\* a Reset taken while the registry held two pairs and the second was active
C15_Witness ==
    /\ Cardinality(DOMAIN color_map) = 2
    /\ Len(consumed) >= 2
    /\ Last(consumed) = Reset
    /\ Effective(consumed[Len(consumed) - 1])
    /\ gen.color_num = 0
    /\ Slots(color_map) = {1, 2}

\* C16: for a translator made with default arguments, between translate calls and at
\* every emitted span the active colour slot is 0 or a slot the registry holds.
C16_ActiveSlotRegistered ==
    /\ self_color_num \in {0} \cup Slots(color_map)
    /\ \A i \in 1 .. Len(out) : out[i].attr.pair \in {0} \cup Slots(color_map)

\* a call that emitted a span in slot 2 and ended with slot 2 active
C16_Witness ==
    /\ gen.pc = "done"
    /\ self_color_num = 2
    /\ Len(out) >= 1
    /\ Last(out).attr.pair = 2

\* the value the move_by contract gives one axis: current + delta when that is inside
\* 0 .. dimension-1, otherwise the boundary the delta points to
Saturated(current, delta, dimension) ==
    IF current + delta \in 0 .. dimension - 1 THEN current + delta
    ELSE IF delta < 0 THEN 0 ELSE dimension - 1

\* C17: move_by(dy, dx) treats the axes independently; on each axis the new value is
\* current + delta when that lies in 0 .. dimension-1, otherwise the boundary in the
\* direction of the delta (0 for a negative delta, dimension-1 for a positive one), and
\* the call never fails.
C17_MoveByExact ==
    [][\A dy \in Deltas, dx \in Deltas :
          MoveBy(dy, dx, FALSE) =>
              /\ coords' = <<Saturated(coords[1], dy, pad_size[1]),
                             Saturated(coords[2], dx, pad_size[2])>>
              /\ status' = "ok"]_vars

\* C18: jump_to with an absent target on one axis leaves that axis's offset at its
\* current value while the other axis is set as requested (jump_to(min, None) and
\* jump_to(max, None) never change x, jump_to(None, min) and jump_to(None, max) never
\* change y).
C18_AbsentAxisKept ==
    [][\A ty \in Targets, tx \in Targets :
          JumpTo(ty, tx, FALSE) =>
              /\ ty = NoTarget => coords'[1] = coords[1]
              /\ tx = NoTarget => coords'[2] = coords[2]]_vars

\* C19: the scroll offset is changed only by the scroll actions: a draw (write and
\* render), the resize action, a quit action and a key with no mapped action all leave
\* it unchanged, and so does every other step that is not a scroll action (a resize of
\* the terminal window, Ctrl-C, the end of main()); a draw or an action that raises or
\* is cut short by Ctrl-C is included.
C19_OffsetFrame ==
    [][last_op' \notin ScrollActions => coords' = coords]_vars

\* a redraw with new content, and then the resize action for a window that grew, that
\* left the offset at (1, 3)
C19_Witness ==
    /\ last_op = "resize"
    /\ status = "ok"
    /\ coords = <<1, 3>>
    /\ term = <<TermRows + 1, TermCols + 2>>
    /\ screen = term
    /\ written = <<TabThenRed, <<Text(TextABC)>>>>

\* the style bit an attribute names
FlagOf ==
    [BLINK |-> "A_BLINK", BOLD |-> "A_BOLD", DIM |-> "A_DIM", HIDDEN |-> "A_INVIS",
     ITALIC |-> "A_ITALIC", REVERSE |-> "A_REVERSE", UNDERLINE |-> "A_UNDERLINE",
     NOT_BLINK |-> "A_BLINK", NOT_HIDDEN |-> "A_INVIS", NOT_ITALIC |-> "A_ITALIC",
     NOT_REVERSE |-> "A_REVERSE", NOT_UNDERLINE |-> "A_UNDERLINE",
     NEITHER_BOLD_NOR_DIM |-> "A_BOLD"]

\* C20 as claimed: a SetAttribute of disabled polarity clears only the bit of the flag it
\* names and one of enabled polarity sets only that bit; every other flag and the
\* active slot are unchanged ("not bold" leaves dim as it was).
C20_OnlyNamedBit ==
    [][\A a \in EnablingAttributes \cup DisablingAttributes :
          Took(SetAttribute(a)) =>
              /\ gen'.attr = IF a \in EnablingAttributes
                             THEN gen.attr \cup {FlagOf[a]}
                             ELSE gen.attr \ {FlagOf[a]}
              /\ gen'.color_num = gen.color_num]_vars

\* C20 amended: a SetAttribute of enabled polarity sets only the bit of the flag it
\* names and one of disabled polarity clears only the bits of the flags it names;
\* every other flag and the active slot are unchanged. The instruction that turns
\* bold off, NEITHER_BOLD_NOR_DIM, names two flags and clears both bold and dim.
C20_OnlyNamedBits ==
    [][\A a \in EnablingAttributes \cup DisablingAttributes :
          Took(SetAttribute(a)) =>
              /\ gen'.attr = IF a \in EnablingAttributes THEN gen.attr \cup {FlagOf[a]}
                             ELSE IF a = "NEITHER_BOLD_NOR_DIM" THEN gen.attr \ {"A_BOLD", "A_DIM"}
                             ELSE gen.attr \ {FlagOf[a]}
              /\ gen'.color_num = gen.color_num]_vars

\* every flag set and slot 1 active: NEITHER_BOLD_NOR_DIM cleared bold and dim and
\* kept the rest
C20_Witness ==
    /\ consumed = <<SetForeground(Red), SetAttribute("NEITHER_BOLD_NOR_DIM")>>
    /\ self_attr = AllFlags
    /\ gen.attr = AllFlags \ {"A_BOLD", "A_DIM"}
    /\ gen.color_num = 1

\* a stream without the instructions the loop skips
RECURSIVE Kept(_)
Kept(stream) ==
    IF stream = <<>> THEN <<>>
    ELSE (IF Head(stream) \in SkippedItems THEN <<>> ELSE <<Head(stream)>>) \o Kept(Tail(stream))

C21_Step ==
    /\ \A item \in SkippedItems :
          Took(item) =>
              /\ out' = out
              /\ gen' = gen
              /\ color_map' = color_map
              /\ pair_table' = pair_table
              /\ status' = "ok"
    /\ (gen.pc = "running" /\ gen'.pc = "done") =>
          /\ out' = WholeCall(Kept(consumed')).spans
          /\ self_attr' = WholeCall(Kept(consumed')).f.attr
          /\ self_color_num' = WholeCall(Kept(consumed')).f.color_num
          /\ color_map' = WholeCall(Kept(consumed')).cmap

\* C21: a colour instruction with no colour, a colour instruction of an unrecognized role
\* and an instruction of an unrecognized kind are skipped without failing: they emit
\* no span and leave the flags, the active slot and the registry as they are, and the
\* call as a whole gives what it gives on the stream without them.
C21_Skipped == [][C21_Step]_vars

\* a call that took all three kinds after a colour was set, and then a text
C21_Witness ==
    /\ gen.pc = "done"
    /\ consumed = <<SetForeground(Red), ColorlessColor, OtherRoleColor, OtherInstruction, Text(TextX)>>
    /\ out = <<[text |-> TextX, attr |-> Encode({}, 1)]>>
    /\ DOMAIN color_map = {<<Red, DefaultColor>>}

\* run() is over: left, and main() on its way to the end of the process or there
RunOver == main.pc \in {"left", "finally", "exited"}

\* what a command execution, a write, a scroll or a render would change
Content == <<pad_size, pad_cells, coords, term, screen, resize_keys, written,
             translator_vars, status>>

\* the steps that are left to main() once run() is over
AfterRun == {"unwind", "exit", "interrupt"}

C22_Step ==
    /\ last_op' = "quit" =>
          /\ main'.pc = "left"
          /\ main'.cause = "quit"
          /\ shown' = NothingShown
          /\ UNCHANGED <<pad_size, pad_cells, coords, term, terminal_vars, written,
                         translator_vars, status>>
    /\ RunOver =>
          /\ RunOver'
          /\ last_op' \in AfterRun
          /\ shown' = NothingShown
          /\ UNCHANGED Content

\* C22: once the loop of run() reads a key mapped to the quit action the loop ends on
\* that iteration and run returns: the quit step itself executes no command, writes,
\* scrolls and renders nothing, and once run() is over (by quit as by any other
\* ending) it is never entered again and no draw, scroll, render or key step follows:
\* main() only goes on to the end of the process.
C22_QuitEndsLoop == [][C22_Step]_vars

\* q pressed after the content was drawn and scrolled, and the process ended by exit(0)
C22_Witness ==
    /\ last_op = "exit"
    /\ main = Exited("quit")
    /\ Len(written) = 2
    /\ coords = <<1, 3>>

\* the offset after a half page down and a half page up from offset c
DownThenUp(c) ==
    ActionCoords("half_page_up", ActionCoords("half_page_down", c, pad_size, term),
                 pad_size, term)

\* neither step of DownThenUp(c) is clamped
NeitherClamped(c) ==
    /\ c[1] + HalfPageForward(term[1]) <= pad_size[1] - 1
    /\ c[1] + HalfPageForward(term[1]) + HalfPageBack(term[1]) >= 0

\* C23: half-page scrolling is symmetric for every screen size: when a half-page key
\* was handled, the deltas HALF_PAGE_UP and HALF_PAGE_DOWN request for the screen's
\* rows are opposite, as are those of HALF_PAGE_LEFT and HALF_PAGE_RIGHT for its
\* columns, and a half page down followed by a half page up, neither clamped,
\* returns to the offset it started from.
C23_HalfPageSymmetric ==
    last_op \in HalfPageActions =>
        /\ HalfPageBack(term[1]) = -HalfPageForward(term[1])
        /\ HalfPageBack(term[2]) = -HalfPageForward(term[2])
        /\ \A y \in 0..(pad_size[1] - 1) :
              NeitherClamped(<<y, coords[2]>>) =>
                  DownThenUp(<<y, coords[2]>>) = <<y, coords[2]>>

====
